---- MODULE Spec2Model ----
(***************************************************************************)
(* State-machine model of amq-jolokia-server.py: the Jolokia bridge with   *)
(* its process-wide credential store (authenticated_credentials), the      *)
(* dispatcher call_jolokia_api and the four tools login, logout,           *)
(* get_version and browse_queue.                                           *)
(*                                                                         *)
(* Python values are tagged records: None, bool, int, str, list and dict   *)
(* (a dict is the ordered sequence of its items, as json.loads builds it). *)
(* A coroutine runs atomically from one await to the next: a tool that     *)
(* reaches the HTTP request suspends (pc = "await") and resumes when the   *)
(* environment delivers the outcome of that request.                       *)
(***************************************************************************)
EXTENDS Integers, Sequences, FiniteSets, TLC

VARIABLES authenticated_credentials, task, last, scenario, url_call, twin

vars == <<authenticated_credentials, task, last, scenario, url_call, twin>>

(***************************************************************************)
(* Bounds and inputs                                                       *)
(***************************************************************************)
NumTasks == 2

Tasks == 1..NumTasks

Usernames == {"", "admin", "guest"}

Passwords == {"", "secret", "other"}

QueueNames == {"orders", "dlq\"1"}

RoutingTypes == {"anycast", "multicast"}

(***************************************************************************)
(* Python values                                                           *)
(***************************************************************************)
PyNone == [t |-> "None"]

PyBool(b) == [t |-> "bool", b |-> b]

PyInt(n) == [t |-> "int", n |-> n]

PyStr(s) == [t |-> "str", s |-> s]

PyList(l) == [t |-> "list", l |-> l]

Item(k, v) == [k |-> k, v |-> v]

PyDict(items) == [t |-> "dict", d |-> items]

\* key in d
dict_has(d, k) == \E i \in 1..Len(d.d) : d.d[i].k = k

\* d.get(k, default)
dict_get(d, k, default) ==
    IF dict_has(d, k)
    THEN d.d[CHOOSE i \in 1..Len(d.d) : d.d[i].k = k].v
    ELSE default

\* d[k] = v on a dict: replaces the value of an existing key in place,
\* appends a new key
dict_set(d, k, v) ==
    IF dict_has(d, k)
    THEN PyDict([i \in 1..Len(d.d) |-> IF d.d[i].k = k THEN Item(k, v) ELSE d.d[i]])
    ELSE PyDict(Append(d.d, Item(k, v)))

\* Python truthiness, negated: `not v`
py_not(v) ==
    CASE v.t = "None" -> TRUE
      [] v.t = "bool" -> ~v.b
      [] v.t = "int"  -> v.n = 0
      [] v.t = "str"  -> v.s = ""
      [] v.t = "list" -> Len(v.l) = 0
      [] v.t = "dict" -> Len(v.d) = 0

\* v == n for an int n (a bool compares as 0 or 1)
py_eq_int(v, n) ==
    CASE v.t = "int"  -> v.n = n
      [] v.t = "bool" -> (IF v.b THEN 1 ELSE 0) = n
      [] OTHER        -> FALSE

\* "sep".join(parts)
RECURSIVE join(_, _)
join(sep, parts) ==
    IF Len(parts) = 0 THEN ""
    ELSE IF Len(parts) = 1 THEN parts[1]
    ELSE parts[1] \o sep \o join(sep, Tail(parts))

\* repr(v); the strings of the model hold no quote that repr would escape
\* except the queue names, which never reach repr
RECURSIVE py_repr(_)
py_repr(v) ==
    CASE v.t = "None" -> "None"
      [] v.t = "bool" -> IF v.b THEN "True" ELSE "False"
      [] v.t = "int"  -> ToString(v.n)
      [] v.t = "str"  -> "'" \o v.s \o "'"
      [] v.t = "list" ->
            "[" \o join(", ", [i \in 1..Len(v.l) |-> py_repr(v.l[i])]) \o "]"
      [] v.t = "dict" ->
            "{" \o join(", ", [i \in 1..Len(v.d) |->
                      "'" \o v.d[i].k \o "': " \o py_repr(v.d[i].v)]) \o "}"

\* str(v), the conversion an f-string applies
py_str(v) == IF v.t = "str" THEN v.s ELSE py_repr(v)

\* len(v): a number, or TypeError for a value without a length
HasLen(v) == v.t \in {"str", "list", "dict"}

py_len(v) ==
    CASE v.t = "str"  -> Len(v.s)
      [] v.t = "list" -> Len(v.l)
      [] v.t = "dict" -> Len(v.d)

(***************************************************************************)
(* Configuration (the defaults of lines 11-16)                             *)
(***************************************************************************)
AMQ_HOST == "localhost"

AMQ_PORT == "8161"

AMQ_BROKER_NAME == "amq-broker-primary"

AMQ_ORIGIN == "mydomain.com"

BASE_URL == "http://" \o AMQ_HOST \o ":" \o AMQ_PORT \o "/console/jolokia"

(***************************************************************************)
(* The broker and the network: what one HTTP GET can come back with        *)
(***************************************************************************)
HttpException(msg) == [kind |-> "exception", msg |-> msg]

\* an exception raised by response.text(), after session.get has returned
HttpReadException(msg) == [kind |-> "exception", msg |-> msg, during |-> "read"]

HttpResponse(status, body) == [kind |-> "response", status |-> status, body |-> body]

NoOutcome == [kind |-> "none"]

ExceptionTexts == {"Cannot connect to host localhost:8161"}

ReadExceptionTexts == {"Response payload is not completed"}

HttpStatuses == {200, 401, 404}

VersionBody == "{\"status\":200,\"value\":\"2.31.0\"}"

MessagesBody == "{\"status\":200,\"value\":[{\"messageID\":7},\"m2\"]}"

ForbiddenBody == "{\"status\":403,\"error\":\"Forbidden\"}"

NoErrorFieldBody == "{\"status\":404,\"value\":null}"

ErrorAnd200Body == "{\"status\":200,\"value\":\"2.31.0\",\"error\":\"deprecated\"}"

NullValueBody == "{\"status\":200,\"value\":null}"

NoValueBody == "{\"status\":200}"

EmptyListBody == "{\"status\":200,\"value\":[]}"

BodyTexts ==
    { "not json", "Not Found", VersionBody, MessagesBody, ForbiddenBody,
      NoErrorFieldBody, ErrorAnd200Body, NullValueBody, NoValueBody, EmptyListBody,
      "null", "[\"error\"]", "\"error\"" }

Outcomes ==
    {HttpException(m) : m \in ExceptionTexts}
        \cup {HttpReadException(m) : m \in ReadExceptionTexts}
        \cup {HttpResponse(st, b) : st \in HttpStatuses, b \in BodyTexts}

\* json.loads(text) on the body texts above: the parsed value, or
\* JSONDecodeError for a text that is no JSON document
JSONDecodeError == [t |-> "JSONDecodeError"]

json_loads(text) ==
    CASE text = VersionBody ->
            PyDict(<<Item("status", PyInt(200)), Item("value", PyStr("2.31.0"))>>)
      [] text = MessagesBody ->
            PyDict(<<Item("status", PyInt(200)),
                     Item("value", PyList(<<PyDict(<<Item("messageID", PyInt(7))>>),
                                            PyStr("m2")>>))>>)
      [] text = ForbiddenBody ->
            PyDict(<<Item("status", PyInt(403)), Item("error", PyStr("Forbidden"))>>)
      [] text = NoErrorFieldBody ->
            PyDict(<<Item("status", PyInt(404)), Item("value", PyNone)>>)
      [] text = ErrorAnd200Body ->
            PyDict(<<Item("status", PyInt(200)), Item("value", PyStr("2.31.0")),
                     Item("error", PyStr("deprecated"))>>)
      [] text = NullValueBody ->
            PyDict(<<Item("status", PyInt(200)), Item("value", PyNone)>>)
      [] text = NoValueBody -> PyDict(<<Item("status", PyInt(200))>>)
      [] text = EmptyListBody ->
            PyDict(<<Item("status", PyInt(200)), Item("value", PyList(<<>>))>>)
      [] text = "null" -> PyNone
      [] text = "[\"error\"]" -> PyList(<<PyStr("error")>>)
      [] text = "\"error\"" -> PyStr("error")
      [] OTHER -> JSONDecodeError

(***************************************************************************)
(* call_jolokia_api                                                        *)
(***************************************************************************)
\* fault: the parameters are appended without the test of line 40
jolokia_url_always_appends(endpoint, method, params) ==
    BASE_URL \o "/" \o method \o "/" \o endpoint \o "/"
        \o join("/", [i \in 1..Len(params) |-> py_str(params[i])])

\* lines 36-42: the URL; params holds the values of **params in call order
jolokia_url(endpoint, method, params) ==
    LET url == BASE_URL \o "/" \o method \o "/" \o endpoint
    IN  IF Len(params) > 0
        THEN url \o "/" \o join("/", [i \in 1..Len(params) |-> py_str(params[i])])
        ELSE url

\* fault: only the username is tested
credentials_missing_username_only(username, password) == py_not(username)

\* line 45: `not username or not password`
credentials_missing(username, password) == py_not(username) \/ py_not(password)

\* line 46
AuthenticationRequired ==
    PyDict(<<Item("error", PyStr("Authentication required")),
             Item("message", PyStr("Please login first using the login tool"))>>)

\* lines 48-56: the GET that is sent
http_get(url, username, password) ==
    [url |-> url, auth |-> [login |-> username.s, password |-> password.s],
     headers |-> [Origin |-> AMQ_ORIGIN]]

NoRequest == [url |-> ""]

\* line 56: session.get hands over a response unless it raised
response_opened(outcome) ==
    IF outcome.kind = "exception" /\ "during" \notin DOMAIN outcome
    THEN {}
    ELSE {"response"}

\* fault: the session and the response are closed by hand on the normal
\* path only
dispatcher_exit_leaks_on_exception(open, outcome) ==
    IF outcome.kind = "exception" THEN open ELSE {}

\* lines 55-56: leaving the two `async with` blocks, by return or by
\* exception, closes the response and the session
dispatcher_exit(open, outcome) == open \ {"response", "session"}

\* fault: the body is parsed before the HTTP status is looked at
jolokia_response_parse_first(outcome) ==
    IF outcome.kind = "exception"
    THEN PyDict(<<Item("error", PyStr(outcome.msg))>>)
    ELSE IF json_loads(outcome.body) # JSONDecodeError
         THEN json_loads(outcome.body)
         ELSE IF outcome.status = 200
              THEN PyDict(<<Item("error", PyStr("Invalid JSON response")),
                            Item("message", PyStr(outcome.body))>>)
              ELSE PyDict(<<Item("error", PyStr("HTTP " \o ToString(outcome.status))),
                            Item("message", PyStr(outcome.body))>>)

\* fault: the body that failed to parse is left out of the error
jolokia_response_drops_body(outcome) ==
    IF outcome.kind = "exception"
    THEN PyDict(<<Item("error", PyStr(outcome.msg))>>)
    ELSE IF outcome.status = 200
         THEN IF json_loads(outcome.body) = JSONDecodeError
              THEN PyDict(<<Item("error", PyStr("Invalid JSON response"))>>)
              ELSE json_loads(outcome.body)
         ELSE PyDict(<<Item("error", PyStr("HTTP " \o ToString(outcome.status))),
                       Item("message", PyStr(outcome.body))>>)

\* lines 54-75: what call_jolokia_api returns for the outcome of its GET
jolokia_response(outcome) ==
    IF outcome.kind = "exception"
    THEN PyDict(<<Item("error", PyStr(outcome.msg))>>)
    ELSE IF outcome.status = 200
         THEN IF json_loads(outcome.body) = JSONDecodeError
              THEN PyDict(<<Item("error", PyStr("Invalid JSON response")),
                            Item("message", PyStr(outcome.body))>>)
              ELSE json_loads(outcome.body)
         ELSE PyDict(<<Item("error", PyStr("HTTP " \o ToString(outcome.status))),
                       Item("message", PyStr(outcome.body))>>)

(***************************************************************************)
(* What a tool hands back to its caller: a text, the text json.dumps       *)
(* writes for a document (kept as that document), or an exception that     *)
(* leaves the tool unhandled                                               *)
(***************************************************************************)
Text(s) == [kind |-> "text", text |-> s]

JsonText(doc) == [kind |-> "json", doc |-> doc]

Raised(exc) == [kind |-> "raise", exc |-> exc]

\* The exception a tool raises on a response that is not a dict: `"error" in
\* response` is a TypeError on None, a bool or a number; on a list or a str
\* the test succeeds and either branch then calls response.get, which these
\* types do not have
response_fault(response) ==
    IF response.t \in {"None", "bool", "int"}
    THEN Raised("TypeError")
    ELSE Raised("AttributeError")

\* lines 91, 136
broker_endpoint ==
    "org.apache.activemq.artemis:broker=!%22" \o AMQ_BROKER_NAME \o "!%22"

\* lines 171-176
queue_endpoint(queue_name, routing_type) ==
    "org.apache.activemq.artemis:broker=!%22" \o AMQ_BROKER_NAME \o "!%22,"
        \o "component=addresses,address=!%22" \o queue_name \o "!%22,"
        \o "subcomponent=queues,routing-type=!%22" \o routing_type \o "!%22,"
        \o "queue=!%22" \o queue_name \o "!%22"

(***************************************************************************)
(* login, lines 94-103                                                     *)
(***************************************************************************)
EmptyStore == PyDict(<<>>)

\* fault: the password is written only when the store has none yet
commit_credentials_keeps_password(creds, username, password) ==
    IF dict_has(creds, "password")
    THEN dict_set(creds, "username", username)
    ELSE dict_set(dict_set(creds, "username", username), "password", password)

\* fault: only the username is written
commit_credentials_username_only(creds, username, password) ==
    dict_set(creds, "username", username)

\* lines 99-100
commit_credentials(creds, username, password) ==
    dict_set(dict_set(creds, "username", username), "password", password)

\* fault: the status of the payload is not tested
login_succeeds_without_status(response) ==
    /\ response.t = "dict"
    /\ ~dict_has(response, "error")

\* line 94 false and line 97 true
login_succeeds(response) ==
    /\ response.t = "dict"
    /\ ~dict_has(response, "error")
    /\ py_eq_int(dict_get(response, "status", PyNone), 200)

\* the text or exception login ends with
login_return(response, username) ==
    IF response.t # "dict" THEN response_fault(response)
    ELSE IF dict_has(response, "error")
    THEN Text("Authentication failed: "
                \o py_str(dict_get(response, "error", PyNone)) \o " - "
                \o py_str(dict_get(response, "message", PyStr(""))))
    ELSE IF py_eq_int(dict_get(response, "status", PyNone), 200)
    THEN Text("Successfully authenticated as user: " \o py_str(username))
    ELSE Text("Authentication failed: " \o py_str(response))

\* the store login leaves behind
login_store(response, creds, username, password) ==
    IF login_succeeds(response)
    THEN commit_credentials(creds, username, password)
    ELSE creds

(***************************************************************************)
(* logout, lines 114-119                                                   *)
(***************************************************************************)
\* fault: the text is built from the wrong key of the store
logout_return_names_password(creds) ==
    IF dict_has(creds, "username")
    THEN Text("Successfully logged out user: "
                \o py_str(dict_get(creds, "password", PyNone)))
    ELSE Text("No active session to logout")

logout_return(creds) ==
    IF dict_has(creds, "username")
    THEN Text("Successfully logged out user: "
                \o py_str(dict_get(creds, "username", PyNone)))
    ELSE Text("No active session to logout")

\* fault: the store is not cleared
logout_store_keeps(creds) == creds

logout_store(creds) ==
    IF dict_has(creds, "username") THEN EmptyStore ELSE creds

(***************************************************************************)
(* get_version, lines 130-146                                              *)
(***************************************************************************)
\* line 134
NotAuthenticatedText ==
    Text("Error: Not authenticated. Please login first using the login tool.")

\* fault: the version is formatted with repr
get_version_return_repr(response) ==
    IF response.t # "dict" THEN response_fault(response)
    ELSE IF dict_has(response, "error")
    THEN Text("Error: " \o py_str(dict_get(response, "error", PyNone)) \o " - "
                \o py_str(dict_get(response, "message", PyStr(""))))
    ELSE IF py_eq_int(dict_get(response, "status", PyNone), 200)
    THEN Text("AMQ Broker Version: "
                \o py_repr(dict_get(response, "value", PyStr("Unknown"))))
    ELSE Text("Failed to retrieve version: " \o py_str(response))

\* lines 139-146
get_version_return(response) ==
    IF response.t # "dict" THEN response_fault(response)
    ELSE IF dict_has(response, "error")
    THEN Text("Error: " \o py_str(dict_get(response, "error", PyNone)) \o " - "
                \o py_str(dict_get(response, "message", PyStr(""))))
    ELSE IF py_eq_int(dict_get(response, "status", PyNone), 200)
    THEN Text("AMQ Broker Version: "
                \o py_str(dict_get(response, "value", PyStr("Unknown"))))
    ELSE Text("Failed to retrieve version: " \o py_str(response))

(***************************************************************************)
(* browse_queue, lines 161-198                                             *)
(***************************************************************************)
\* lines 165-168
NotAuthenticatedJson ==
    JsonText(PyDict(<<Item("error", PyStr("Not authenticated")),
                      Item("message", PyStr("Please login first using the login tool"))>>))

\* fault: the count is taken of the response, not of the messages
browse_queue_return_counts_response(response, queue_name, routing_type) ==
    IF response.t # "dict" THEN response_fault(response)
    ELSE IF dict_has(response, "error")
    THEN JsonText(PyDict(<<Item("error", dict_get(response, "error", PyNone)),
                           Item("message", dict_get(response, "message", PyStr("")))>>))
    ELSE IF py_eq_int(dict_get(response, "status", PyNone), 200)
    THEN LET messages == dict_get(response, "value", PyList(<<>>))
         IN  IF HasLen(messages)
             THEN JsonText(PyDict(<<Item("queue", queue_name),
                                    Item("routing_type", routing_type),
                                    Item("message_count", PyInt(py_len(response))),
                                    Item("messages", messages)>>))
             ELSE Raised("TypeError")
    ELSE JsonText(PyDict(<<Item("error", PyStr("Failed to browse queue")),
                           Item("response", response)>>))

\* lines 180-198
browse_queue_return(response, queue_name, routing_type) ==
    IF response.t # "dict" THEN response_fault(response)
    ELSE IF dict_has(response, "error")
    THEN JsonText(PyDict(<<Item("error", dict_get(response, "error", PyNone)),
                           Item("message", dict_get(response, "message", PyStr("")))>>))
    ELSE IF py_eq_int(dict_get(response, "status", PyNone), 200)
    THEN LET messages == dict_get(response, "value", PyList(<<>>))
         IN  IF HasLen(messages)
             THEN JsonText(PyDict(<<Item("queue", queue_name),
                                    Item("routing_type", routing_type),
                                    Item("message_count", PyInt(py_len(messages))),
                                    Item("messages", messages)>>))
             ELSE Raised("TypeError")
    ELSE JsonText(PyDict(<<Item("error", PyStr("Failed to browse queue")),
                           Item("response", response)>>))

(***************************************************************************)
(* The state machine                                                       *)
(*                                                                         *)
(* authenticated_credentials  the module-level dict of line 19             *)
(* task[t]    the invocation running in slot t: its arguments and locals,  *)
(*            the GET it waits for and the number of GETs it has sent      *)
(* last       the invocation that returned most recently: what it was      *)
(*            called with, the store it found (pre), the outcome of its    *)
(*            GET, the dict call_jolokia_api returned and what the caller  *)
(*            got                                                          *)
(* scenario   how far the completed calls have followed the sequence       *)
(*            login (committed), get_version, logout, get_version          *)
(* url_call   the last URL built by lines 36-42 from arguments of its own  *)
(* twin       two runs of the server that are given the same calls and the *)
(*            same broker answers, each with a password of its own for     *)
(*            login                                                        *)
(*                                                                         *)
(* A frame also records the client session and response it holds open      *)
(* (open) and whether a logout returned while it was suspended             *)
(* (overtaken).                                                            *)
(***************************************************************************)
IdleTask ==
    [pc |-> "idle", op |-> "none", username |-> PyNone, password |-> PyNone,
     queue_name |-> PyNone, routing_type |-> PyNone,
     request |-> NoRequest, requests |-> 0, open |-> {}, overtaken |-> FALSE]

Frame(op, username, password, queue_name, routing_type) ==
    [pc |-> "run", op |-> op, username |-> username, password |-> password,
     queue_name |-> queue_name, routing_type |-> routing_type,
     request |-> NoRequest, requests |-> 0, open |-> {}, overtaken |-> FALSE]

\* lines 55-56: the frame opens a client session and suspends on the GET it
\* has just sent
Await(frame, url) ==
    [frame EXCEPT !.pc = "await",
                  !.request = http_get(url, frame.username, frame.password),
                  !.requests = frame.requests + 1,
                  !.open = frame.open \cup {"session"}]

\* lines 56-75: the frame resumes with the outcome of its GET and leaves
\* call_jolokia_api
Leave(frame, outcome) ==
    [frame EXCEPT !.pc = "run",
                  !.open = dispatcher_exit(frame.open \cup response_opened(outcome),
                                           outcome)]

scenario_next(pos, op, committed) ==
    IF op = "login" /\ committed THEN 1
    ELSE IF pos = 1 /\ op = "get_version" THEN 2
    ELSE IF pos = 2 /\ op = "logout" THEN 3
    ELSE IF pos = 3 /\ op = "get_version" THEN 4
    ELSE 0

\* the invocation in slot t returns ret to its caller and leaves store behind
Return(t, frame, outcome, response, ret, store) ==
    /\ last' = [task |-> t, op |-> frame.op,
                username |-> frame.username, password |-> frame.password,
                queue_name |-> frame.queue_name, routing_type |-> frame.routing_type,
                request |-> frame.request, requests |-> frame.requests,
                pre |-> authenticated_credentials,
                outcome |-> outcome, response |-> response, ret |-> ret,
                open |-> frame.open, overtaken |-> frame.overtaken]
    /\ authenticated_credentials' = store
    /\ task' = [s \in Tasks |->
                  IF s = t THEN IdleTask
                  ELSE IF frame.op = "logout" /\ task[s].pc = "await"
                       THEN [task[s] EXCEPT !.overtaken = TRUE]
                       ELSE task[s]]
    /\ UNCHANGED <<url_call, twin>>
    /\ scenario' = scenario_next(scenario, frame.op,
                                 frame.op = "login" /\ store # authenticated_credentials)

\* no URL built yet outside a tool
NoUrlCall == [endpoint |-> "", method |-> "", params |-> <<>>, url |-> ""]

\* a run of the server before its first call
FreshRun ==
    [creds |-> EmptyStore, op |-> "none", password |-> "",
     request |-> NoRequest, ret |-> Text("")]

\* the pair of runs, not started
NoTwin == [alike |-> TRUE, a |-> FreshRun, b |-> FreshRun]

Init ==
    /\ authenticated_credentials = EmptyStore
    /\ task = [t \in Tasks |-> IdleTask]
    /\ last = [task |-> 0, op |-> "none", username |-> PyNone, password |-> PyNone,
               queue_name |-> PyNone, routing_type |-> PyNone,
               request |-> NoRequest, requests |-> 0, pre |-> EmptyStore,
               outcome |-> NoOutcome, response |-> PyNone, ret |-> Text(""),
               open |-> {}, overtaken |-> FALSE]
    /\ scenario = 0
    /\ url_call = NoUrlCall
    /\ twin = NoTwin

\* login(username, password), lines 90-92 up to the await: with a missing
\* username or password call_jolokia_api returns at line 46 and login runs
\* to its end without suspending
Login(t, u, p) ==
    /\ task[t].pc = "idle"
    /\ LET frame == Frame("login", PyStr(u), PyStr(p), PyNone, PyNone)
           url == jolokia_url(broker_endpoint, "read", <<PyStr("Version")>>)
       IN  IF credentials_missing(frame.username, frame.password)
           THEN Return(t, frame, NoOutcome, AuthenticationRequired,
                       login_return(AuthenticationRequired, frame.username),
                       login_store(AuthenticationRequired, authenticated_credentials,
                                   frame.username, frame.password))
           ELSE /\ task' = [task EXCEPT ![t] = Await(frame, url)]
                /\ UNCHANGED <<authenticated_credentials, last, scenario, url_call, twin>>

\* fault: a GET that raised is sent once more
LoginResume_retries(t, outcome) ==
    /\ task[t].pc = "await"
    /\ task[t].op = "login"
    /\ IF outcome.kind = "exception" /\ task[t].requests < 2
       THEN /\ task' = [task EXCEPT ![t] =
                           Await(Leave(task[t], outcome), task[t].request.url)]
            /\ UNCHANGED <<authenticated_credentials, last, scenario, url_call, twin>>
       ELSE LET response == jolokia_response(outcome)
            IN  Return(t, Leave(task[t], outcome), outcome, response,
                       login_return(response, task[t].username),
                       login_store(response, authenticated_credentials,
                                   task[t].username, task[t].password))

\* login resumes with the outcome of its GET, lines 58-75 and 94-103
LoginResume(t, outcome) ==
    /\ task[t].pc = "await"
    /\ task[t].op = "login"
    /\ LET response == jolokia_response(outcome)
       IN  Return(t, Leave(task[t], outcome), outcome, response,
                  login_return(response, task[t].username),
                  login_store(response, authenticated_credentials,
                              task[t].username, task[t].password))

\* logout(), lines 114-119: no await, one atomic step
Logout(t) ==
    /\ task[t].pc = "idle"
    /\ Return(t, Frame("logout", PyNone, PyNone, PyNone, PyNone), NoOutcome, PyNone,
              logout_return(authenticated_credentials),
              logout_store(authenticated_credentials))

\* fault: get_version without the test of line 133
GetVersion_unguarded(t) ==
    /\ task[t].pc = "idle"
    /\ LET frame == Frame("get_version",
                          dict_get(authenticated_credentials, "username", PyNone),
                          dict_get(authenticated_credentials, "password", PyNone),
                          PyNone, PyNone)
           url == jolokia_url(broker_endpoint, "read", <<PyStr("Version")>>)
       IN  IF credentials_missing(frame.username, frame.password)
           THEN Return(t, frame, NoOutcome, AuthenticationRequired,
                       get_version_return(AuthenticationRequired),
                       authenticated_credentials)
           ELSE /\ task' = [task EXCEPT ![t] = Await(frame, url)]
                /\ UNCHANGED <<authenticated_credentials, last, scenario, url_call, twin>>

\* get_version(), lines 130-137 up to the await; past line 133 the test of
\* line 45 sees the same two values and passes
GetVersion(t) ==
    /\ task[t].pc = "idle"
    /\ LET frame == Frame("get_version",
                          dict_get(authenticated_credentials, "username", PyNone),
                          dict_get(authenticated_credentials, "password", PyNone),
                          PyNone, PyNone)
           url == jolokia_url(broker_endpoint, "read", <<PyStr("Version")>>)
       IN  IF credentials_missing(frame.username, frame.password)
           THEN Return(t, frame, NoOutcome, PyNone, NotAuthenticatedText,
                       authenticated_credentials)
           ELSE /\ task' = [task EXCEPT ![t] = Await(frame, url)]
                /\ UNCHANGED <<authenticated_credentials, last, scenario, url_call, twin>>

\* fault: an HTTP 401 ends the session
GetVersionResume_clears_on_401(t, outcome) ==
    /\ task[t].pc = "await"
    /\ task[t].op = "get_version"
    /\ LET response == jolokia_response(outcome)
       IN  Return(t, Leave(task[t], outcome), outcome, response,
                  get_version_return(response),
                  IF outcome.kind = "response" /\ outcome.status = 401
                  THEN EmptyStore
                  ELSE authenticated_credentials)

\* get_version resumes, lines 58-75 and 139-146
GetVersionResume(t, outcome) ==
    /\ task[t].pc = "await"
    /\ task[t].op = "get_version"
    /\ LET response == jolokia_response(outcome)
       IN  Return(t, Leave(task[t], outcome), outcome, response, get_version_return(response),
                  authenticated_credentials)

\* browse_queue(queue_name, routing_type), lines 161-178 up to the await;
\* past line 164 the test of line 45 sees the same two values and passes
BrowseQueue(t, q, r) ==
    /\ task[t].pc = "idle"
    /\ LET frame == Frame("browse_queue",
                          dict_get(authenticated_credentials, "username", PyNone),
                          dict_get(authenticated_credentials, "password", PyNone),
                          PyStr(q), PyStr(r))
           url == jolokia_url(queue_endpoint(q, r), "exec", <<PyStr("browse()")>>)
       IN  IF credentials_missing(frame.username, frame.password)
           THEN Return(t, frame, NoOutcome, PyNone, NotAuthenticatedJson,
                       authenticated_credentials)
           ELSE /\ task' = [task EXCEPT ![t] = Await(frame, url)]
                /\ UNCHANGED <<authenticated_credentials, last, scenario, url_call, twin>>

\* browse_queue resumes, lines 58-75 and 180-198
BrowseQueueResume(t, outcome) ==
    /\ task[t].pc = "await"
    /\ task[t].op = "browse_queue"
    /\ LET response == jolokia_response(outcome)
       IN  Return(t, Leave(task[t], outcome), outcome, response,
                  browse_queue_return(response, task[t].queue_name,
                                      task[t].routing_type),
                  authenticated_credentials)

\* one operator at a time: a tool is called only when no call is in progress
NoCallInProgress == \A t \in Tasks : task[t].pc = "idle"

Next ==
    \E t \in Tasks :
        \/ NoCallInProgress /\ \E u \in Usernames, p \in Passwords : Login(t, u, p)
        \/ NoCallInProgress /\ Logout(t)
        \/ NoCallInProgress /\ GetVersion(t)
        \/ NoCallInProgress /\ \E q \in QueueNames, r \in RoutingTypes : BrowseQueue(t, q, r)
        \/ \E o \in Outcomes : LoginResume(t, o)
        \/ \E o \in Outcomes : GetVersionResume(t, o)
        \/ \E o \in Outcomes : BrowseQueueResume(t, o)

Spec == Init /\ [][Next]_vars

(***************************************************************************)
(* Concurrent callers: the tools are coroutines of one event loop and no   *)
(* lock guards the store, so a tool may be called while others are         *)
(* suspended on their GET, and the suspended ones resume in any order      *)
(***************************************************************************)
ConcLogins == {<<"admin", "secret">>, <<"guest", "other">>, <<"", "secret">>}

ConcOutcomes ==
    { HttpResponse(200, VersionBody), HttpResponse(200, MessagesBody),
      HttpResponse(401, "Not Found"),
      HttpException("Cannot connect to host localhost:8161") }

ConcNext ==
    \E t \in Tasks :
        \/ \E c \in ConcLogins : Login(t, c[1], c[2])
        \/ Logout(t)
        \/ GetVersion(t)
        \/ BrowseQueue(t, "orders", "anycast")
        \/ \E o \in ConcOutcomes : LoginResume(t, o)
        \/ \E o \in ConcOutcomes : GetVersionResume(t, o)
        \/ \E o \in ConcOutcomes : BrowseQueueResume(t, o)

ConcSpec == Init /\ [][ConcNext]_vars

(***************************************************************************)
(* Two runs side by side. Each tool is run from its call to its return on  *)
(* the store of a run, with the outcome its GET gets if it sends one.      *)
(***************************************************************************)
\* login(username, password), lines 90-103
login_run(creds, username, password, outcome) ==
    LET sent == ~credentials_missing(username, password)
        url == jolokia_url(broker_endpoint, "read", <<PyStr("Version")>>)
        response == IF sent THEN jolokia_response(outcome) ELSE AuthenticationRequired
    IN  [creds |-> login_store(response, creds, username, password),
         op |-> "login", password |-> password.s,
         request |-> IF sent THEN http_get(url, username, password) ELSE NoRequest,
         ret |-> login_return(response, username)]

\* logout(), lines 114-119
logout_run(creds) ==
    [creds |-> logout_store(creds), op |-> "logout", password |-> "",
     request |-> NoRequest, ret |-> logout_return(creds)]

\* get_version(), lines 130-146
get_version_run(creds, outcome) ==
    LET username == dict_get(creds, "username", PyNone)
        password == dict_get(creds, "password", PyNone)
        url == jolokia_url(broker_endpoint, "read", <<PyStr("Version")>>)
    IN  IF credentials_missing(username, password)
        THEN [creds |-> creds, op |-> "get_version", password |-> "",
              request |-> NoRequest, ret |-> NotAuthenticatedText]
        ELSE [creds |-> creds, op |-> "get_version", password |-> "",
              request |-> http_get(url, username, password),
              ret |-> get_version_return(jolokia_response(outcome))]

\* browse_queue(queue_name, routing_type), lines 161-198
browse_queue_run(creds, q, r, outcome) ==
    LET username == dict_get(creds, "username", PyNone)
        password == dict_get(creds, "password", PyNone)
        url == jolokia_url(queue_endpoint(q, r), "exec", <<PyStr("browse()")>>)
    IN  IF credentials_missing(username, password)
        THEN [creds |-> creds, op |-> "browse_queue", password |-> "",
              request |-> NoRequest, ret |-> NotAuthenticatedJson]
        ELSE [creds |-> creds, op |-> "browse_queue", password |-> "",
              request |-> http_get(url, username, password),
              ret |-> browse_queue_return(jolokia_response(outcome),
                                          PyStr(q), PyStr(r))]

UnchangedByTwin == UNCHANGED <<authenticated_credentials, task, last, scenario, url_call>>

\* both runs are asked to log the same user in, each with its password
TwinLogin(u, pa, pb, outcome) ==
    /\ twin' = [alike |-> twin.alike /\ ((pa = "") <=> (pb = "")),
                a |-> login_run(twin.a.creds, PyStr(u), PyStr(pa), outcome),
                b |-> login_run(twin.b.creds, PyStr(u), PyStr(pb), outcome)]
    /\ UnchangedByTwin

TwinLogout ==
    /\ twin' = [twin EXCEPT !.a = logout_run(twin.a.creds),
                            !.b = logout_run(twin.b.creds)]
    /\ UnchangedByTwin

TwinGetVersion(outcome) ==
    /\ twin' = [twin EXCEPT !.a = get_version_run(twin.a.creds, outcome),
                            !.b = get_version_run(twin.b.creds, outcome)]
    /\ UnchangedByTwin

TwinBrowseQueue(q, r, outcome) ==
    /\ twin' = [twin EXCEPT !.a = browse_queue_run(twin.a.creds, q, r, outcome),
                            !.b = browse_queue_run(twin.b.creds, q, r, outcome)]
    /\ UnchangedByTwin

\* the broker answers given to the two runs: a good answer to each tool, a
\* declared error, a 200 answer with an error key, bodies that are no JSON
\* object, a refused status and both kinds of exception
TwinOutcomes ==
    { HttpResponse(200, VersionBody), HttpResponse(200, MessagesBody),
      HttpResponse(200, ForbiddenBody), HttpResponse(200, ErrorAnd200Body),
      HttpResponse(200, "not json"), HttpResponse(200, "null"),
      HttpResponse(401, "Not Found"),
      HttpException("Cannot connect to host localhost:8161"),
      HttpReadException("Response payload is not completed") }

TwinNext ==
    \/ \E u \in Usernames, pa \in Passwords, pb \in Passwords, o \in TwinOutcomes :
          TwinLogin(u, pa, pb, o)
    \/ TwinLogout
    \/ \E o \in TwinOutcomes : TwinGetVersion(o)
    \/ \E q \in QueueNames, r \in RoutingTypes, o \in TwinOutcomes :
          TwinBrowseQueue(q, r, o)

TwinSpec == Init /\ [][TwinNext]_vars

(***************************************************************************)
(* The URL builder on its own: lines 36-42 applied to any endpoint, any    *)
(* Jolokia method and any list of up to MaxParams parameter values         *)
(***************************************************************************)
MaxParams == 2

Endpoints ==
    {broker_endpoint, queue_endpoint("orders", "anycast"), "java.lang:type=Memory"}

Methods == {"read", "write", "exec", "search"}

ParamValues == {PyStr("Version"), PyStr("browse()"), PyInt(5)}

ParamLists == UNION {[1..n -> ParamValues] : n \in 0..MaxParams}

BuildUrl(endpoint, method, params) ==
    /\ url_call' = [endpoint |-> endpoint, method |-> method, params |-> params,
                    url |-> jolokia_url(endpoint, method, params)]
    /\ UNCHANGED <<authenticated_credentials, task, last, scenario, twin>>

UrlNext ==
    \E endpoint \in Endpoints, method \in Methods, params \in ParamLists :
        BuildUrl(endpoint, method, params)

UrlSpec == Init /\ [][UrlNext]_vars

(***************************************************************************)
(* Vocabulary of the properties                                            *)
(***************************************************************************)
\* the store holding exactly the pair (username, password)
StoredPair(username, password) ==
    PyDict(<<Item("username", username), Item("password", password)>>)

\* the dict call_jolokia_api returned carries Jolokia status 200
ReportsStatus200(response) ==
    /\ response.t = "dict"
    /\ \E i \in 1..Len(response.d) :
          response.d[i].k = "status" /\ response.d[i].v = PyInt(200)

\* ... and carries no `error` key
HasErrorKey(response) ==
    /\ response.t = "dict"
    /\ \E i \in 1..Len(response.d) : response.d[i].k = "error"

Verified(response) == ReportsStatus200(response) /\ ~HasErrorKey(response)

\* the GET came back with HTTP 200 and a body that is a JSON document
Got200Json(outcome) ==
    /\ outcome.kind = "response"
    /\ outcome.status = 200
    /\ json_loads(outcome.body) # JSONDecodeError

(***************************************************************************)
(* C1                                                                      *)
(***************************************************************************)
\* C1 as stated: after every login call the store holds the pair of the call
\* if and only if the verification reported Jolokia status 200 (a status-200
\* payload that is no error), and after a failed verification the store is
\* empty.
C1_StoreIffStatus200 ==
    last.op = "login" =>
        /\ (authenticated_credentials = StoredPair(last.username, last.password))
               <=> Verified(last.response)
        /\ ~Verified(last.response) => authenticated_credentials = EmptyStore

\* C1 amended: login sets the store to exactly the pair of the call when the
\* verification response is a JSON object with status 200 and no `error`
\* key; on every other outcome it leaves the store exactly as it found it
\* (empty if it was empty, the earlier session otherwise).
C1_CommitIffVerified ==
    last.op = "login" =>
        IF Verified(last.response)
        THEN authenticated_credentials = StoredPair(last.username, last.password)
        ELSE authenticated_credentials = last.pre

\* a login that failed at the broker while a session was active
C1_Witness ==
    /\ last.op = "login"
    /\ last.outcome.kind = "response"
    /\ ~Verified(last.response)
    /\ last.pre # EmptyStore
    /\ authenticated_credentials = last.pre

(***************************************************************************)
(* C2                                                                      *)
(***************************************************************************)
\* C2: get_version and browse_queue called on an empty store return the
\* not-authenticated result and send no HTTP request; logout called on an
\* empty store sends none either.
C2_EmptyStoreFailsFast ==
    /\ (last.op = "get_version" /\ last.pre = EmptyStore) =>
          /\ last.ret =
                Text("Error: Not authenticated. Please login first using the login tool.")
          /\ last.requests = 0
          /\ last.request = NoRequest
    /\ (last.op = "browse_queue" /\ last.pre = EmptyStore) =>
          /\ last.ret.kind = "json"
          /\ last.ret.doc =
                PyDict(<<Item("error", PyStr("Not authenticated")),
                         Item("message", PyStr("Please login first using the login tool"))>>)
          /\ last.requests = 0
          /\ last.request = NoRequest
    /\ (last.op = "logout" /\ last.pre = EmptyStore) =>
          /\ last.requests = 0
          /\ last.request = NoRequest

\* a browse_queue that found the store empty and went no further
C2_Witness ==
    /\ last.op = "browse_queue"
    /\ last.pre = EmptyStore
    /\ last.ret.kind = "json"
    /\ last.requests = 0

(***************************************************************************)
(* C3                                                                      *)
(***************************************************************************)
\* C3 as stated: whatever the outcome of the HTTP call, every tool returns a
\* text to its caller and raises nothing.
C3_NeverRaises == last.ret.kind \in {"text", "json"}

(***************************************************************************)
(* C4                                                                      *)
(***************************************************************************)
\* C4: in the sequence login (committed), get_version, logout, get_version
\* the first get_version, answered with a status-200 payload, returns the
\* version value of that payload, and the second returns the
\* not-authenticated text without sending a request.
C4_Scenario ==
    /\ (/\ scenario = 2
        /\ Got200Json(last.outcome)
        /\ Verified(last.response)
        /\ \E i \in 1..Len(last.response.d) :
              last.response.d[i].k = "value" /\ last.response.d[i].v.t = "str")
          => \E i \in 1..Len(last.response.d) :
                /\ last.response.d[i].k = "value"
                /\ last.ret = Text("AMQ Broker Version: " \o last.response.d[i].v.s)
    /\ scenario = 4 =>
          /\ last.op = "get_version"
          /\ last.ret =
                Text("Error: Not authenticated. Please login first using the login tool.")
          /\ last.requests = 0
          /\ last.outcome = NoOutcome

\* the whole sequence has run
C4_Witness == scenario = 4 /\ last.op = "get_version" /\ last.pre = EmptyStore

(***************************************************************************)
(* C5                                                                      *)
(***************************************************************************)
\* C5: after every logout the store is empty; logout names the stored user
\* exactly when the store was not empty and reports no active session
\* exactly when it was.
C5_LogoutClears ==
    last.op = "logout" =>
        /\ authenticated_credentials = EmptyStore
        /\ (last.pre # EmptyStore) <=>
              (\E u \in Usernames :
                  /\ \E i \in 1..Len(last.pre.d) :
                        last.pre.d[i] = Item("username", PyStr(u))
                  /\ last.ret = Text("Successfully logged out user: " \o u))
        /\ (last.pre = EmptyStore) <=> (last.ret = Text("No active session to logout"))

\* a logout that ended a session
C5_Witness ==
    /\ last.op = "logout"
    /\ last.pre # EmptyStore
    /\ authenticated_credentials = EmptyStore

(***************************************************************************)
(* C6                                                                      *)
(***************************************************************************)
\* C6: the store never holds more than one pair, and right after a
\* successful login(u2, p2) it holds exactly (u2, p2).
C6_SinglePair ==
    /\ \/ authenticated_credentials = EmptyStore
       \/ \E u \in Usernames, p \in Passwords :
             authenticated_credentials = StoredPair(PyStr(u), PyStr(p))
    /\ (/\ last.op = "login"
        /\ last.username.t = "str"
        /\ last.ret = Text("Successfully authenticated as user: " \o last.username.s))
          => authenticated_credentials = StoredPair(last.username, last.password)

\* a second successful login, with another user and another password
C6_Witness ==
    /\ last.op = "login"
    /\ last.pre # EmptyStore
    /\ authenticated_credentials = StoredPair(last.username, last.password)
    /\ \A i \in 1..Len(last.pre.d) :
          last.pre.d[i].v \notin {last.username, last.password}

(***************************************************************************)
(* C7                                                                      *)
(***************************************************************************)
\* the value of key k in a payload that has it
PayloadField(payload, k) ==
    payload.d[CHOOSE i \in 1..Len(payload.d) : payload.d[i].k = k].v

HasField(payload, k) == \E i \in 1..Len(payload.d) : payload.d[i].k = k

\* C7 as stated: for an HTTP 200 response with a JSON object as body the
\* payload's status alone decides: with status 200 get_version returns
\* payload.value, browse_queue returns it as messages and login commits the
\* credentials; with any other status the full payload is the declared
\* error and the tool reports a failure.
C7_StatusAloneDecides ==
    (Got200Json(last.outcome) /\ last.response.t = "dict") =>
        IF ReportsStatus200(last.response)
        THEN /\ (last.op = "login") =>
                   authenticated_credentials = StoredPair(last.username, last.password)
             /\ (last.op = "get_version" /\ HasField(last.response, "value")) =>
                   last.ret = Text("AMQ Broker Version: "
                                     \o py_str(PayloadField(last.response, "value")))
             /\ (last.op = "browse_queue" /\ HasField(last.response, "value")) =>
                   /\ last.ret.kind = "json"
                   /\ HasField(last.ret.doc, "messages")
                   /\ PayloadField(last.ret.doc, "messages")
                         = PayloadField(last.response, "value")
        ELSE /\ last.response = json_loads(last.outcome.body)
             /\ (last.op = "login") =>
                   /\ authenticated_credentials = last.pre
                   /\ last.ret # Text("Successfully authenticated as user: "
                                        \o last.username.s)
             /\ (last.op = "get_version" /\ HasField(last.response, "value")) =>
                   last.ret # Text("AMQ Broker Version: "
                                     \o py_str(PayloadField(last.response, "value")))
             /\ (last.op = "browse_queue") =>
                   /\ last.ret.kind = "json"
                   /\ ~HasField(last.ret.doc, "messages")

(***************************************************************************)
(* C8                                                                      *)
(***************************************************************************)
\* C8: a response with an HTTP status other than 200 is the error
\* "HTTP <status>" with the raw body as message, whatever the body is; the
\* body is not parsed, so a body that is JSON with status 200 changes
\* nothing, and the tool reports that error.
C8_Non200IsHttpError ==
    (last.outcome.kind = "response" /\ last.outcome.status # 200) =>
        /\ last.response =
              PyDict(<<Item("error", PyStr("HTTP " \o ToString(last.outcome.status))),
                       Item("message", PyStr(last.outcome.body))>>)
        /\ last.outcome.status = 404 =>
              PayloadField(last.response, "error") = PyStr("HTTP 404")
        /\ last.outcome.status = 401 =>
              PayloadField(last.response, "error") = PyStr("HTTP 401")
        /\ (last.op = "login") =>
              /\ authenticated_credentials = last.pre
              /\ last.ret = Text("Authentication failed: HTTP "
                                   \o ToString(last.outcome.status) \o " - "
                                   \o last.outcome.body)
        /\ (last.op = "get_version") =>
              last.ret = Text("Error: HTTP " \o ToString(last.outcome.status) \o " - "
                                \o last.outcome.body)
        /\ (last.op = "browse_queue") =>
              last.ret =
                 JsonText(PyDict(<<Item("error",
                                        PyStr("HTTP " \o ToString(last.outcome.status))),
                                   Item("message", PyStr(last.outcome.body))>>))

\* a 404 whose body is the JSON of a successful answer
C8_Witness ==
    /\ last.op = "get_version"
    /\ last.outcome = HttpResponse(404, VersionBody)
    /\ last.ret = Text("Error: HTTP 404 - " \o VersionBody)

(***************************************************************************)
(* C9                                                                      *)
(***************************************************************************)
\* the GET came back with HTTP 200 and a body that is no JSON document
Got200NotJson(outcome) ==
    /\ outcome.kind = "response"
    /\ outcome.status = 200
    /\ json_loads(outcome.body) = JSONDecodeError

\* C9 as stated: for an HTTP 200 response whose body is no JSON the error
\* message is "Invalid JSON response: " followed by the raw body.
C9_MessageIsPrefixedBody ==
    Got200NotJson(last.outcome) =>
        \/ /\ HasField(last.response, "message")
           /\ PayloadField(last.response, "message")
                 = PyStr("Invalid JSON response: " \o last.outcome.body)
        \/ /\ last.ret.kind = "text"
           /\ \E prefix \in {"", "Error: ", "Authentication failed: "} :
                 last.ret.text = prefix \o "Invalid JSON response: " \o last.outcome.body
        \/ /\ last.ret.kind = "json"
           /\ HasField(last.ret.doc, "message")
           /\ PayloadField(last.ret.doc, "message")
                 = PyStr("Invalid JSON response: " \o last.outcome.body)

\* C9 amended: for an HTTP 200 response whose body is no JSON the
\* dispatcher returns the error "Invalid JSON response" with the raw body,
\* unchanged, as its message; login and get_version return
\* "<prefix>Invalid JSON response - <raw body>" and browse_queue returns the
\* error and the raw body as message, so the raw text reaches the caller.
C9_InvalidJsonCarriesBody ==
    Got200NotJson(last.outcome) =>
        /\ last.response =
              PyDict(<<Item("error", PyStr("Invalid JSON response")),
                       Item("message", PyStr(last.outcome.body))>>)
        /\ (last.op = "login") =>
              last.ret = Text("Authentication failed: Invalid JSON response - "
                                \o last.outcome.body)
        /\ (last.op = "get_version") =>
              last.ret = Text("Error: Invalid JSON response - " \o last.outcome.body)
        /\ (last.op = "browse_queue") =>
              last.ret =
                 JsonText(PyDict(<<Item("error", PyStr("Invalid JSON response")),
                                   Item("message", PyStr(last.outcome.body))>>))

\* browse_queue answered with HTTP 200 and the body "not json"
C9_Witness ==
    /\ last.op = "browse_queue"
    /\ last.outcome = HttpResponse(200, "not json")
    /\ PayloadField(last.ret.doc, "message") = PyStr("not json")

(***************************************************************************)
(* C10                                                                     *)
(***************************************************************************)
\* the broker declared an error: HTTP 200, a JSON object, a status other
\* than 200
DeclaredError(outcome, payload) ==
    /\ Got200Json(outcome)
    /\ payload.t = "dict"
    /\ HasField(payload, "status")
    /\ ~ReportsStatus200(payload)

\* the result holds the payload whole, or holds its status
KeepsStatus(ret, payload) ==
    \/ /\ ret.kind = "text"
       /\ \E prefix \in {"Authentication failed: ", "Failed to retrieve version: ",
                         "Error: "} :
             ret.text = prefix \o py_repr(payload)
    \/ /\ ret.kind = "json"
       /\ \/ /\ HasField(ret.doc, "response")
             /\ PayloadField(ret.doc, "response") = payload
          \/ /\ HasField(ret.doc, "status")
             /\ PayloadField(ret.doc, "status") = PayloadField(payload, "status")

\* C10 as stated: the result of login, get_version and browse_queue for a
\* declared error payload, with or without an `error` field, preserves the
\* payload's status and its error message.
C10_DeclaredErrorPreserved ==
    DeclaredError(last.outcome, last.response) => KeepsStatus(last.ret, last.response)

C12_BrowseResult ==
    (/\ last.op = "browse_queue"
     /\ Got200Json(last.outcome)
     /\ Verified(last.response)
     /\ HasField(last.response, "value")
     /\ PayloadField(last.response, "value").t = "list") =>
        /\ last.ret.kind = "json"
        /\ [i \in 1..Len(last.ret.doc.d) |-> last.ret.doc.d[i].k]
              = <<"queue", "routing_type", "message_count", "messages">>
        /\ PayloadField(last.ret.doc, "queue") = last.queue_name
        /\ PayloadField(last.ret.doc, "routing_type") = last.routing_type
        /\ PayloadField(last.ret.doc, "messages").t = "list"
        /\ PayloadField(last.ret.doc, "messages").l
              = PayloadField(last.response, "value").l
        /\ PayloadField(last.ret.doc, "message_count")
              = PyInt(Len(PayloadField(last.response, "value").l))

\* two messages of different shapes browsed from the multicast queue
C12_Witness ==
    /\ last.op = "browse_queue"
    /\ last.outcome = HttpResponse(200, MessagesBody)
    /\ last.routing_type = PyStr("multicast")
    /\ last.ret.kind = "json"
    /\ PayloadField(last.ret.doc, "message_count") = PyInt(2)

(***************************************************************************)
(* C13                                                                     *)
(***************************************************************************)
\* a component value with every double quote replaced by !%22, for the
\* queue names and routing types of the model
QuotesEscaped(value) ==
    CASE value = "dlq\"1" -> "dlq!%221"
      [] OTHER -> value

\* C13 as stated: in the object name that reaches the URL every double
\* quote of a component value is replaced by !%22 and nothing else is
\* changed, so the endpoint holds no raw double quote.
C13_QuotesAreEscaped ==
    (last.op = "browse_queue" /\ last.request # NoRequest) =>
        last.request.url =
            "http://localhost:8161/console/jolokia/exec/"
              \o "org.apache.activemq.artemis:broker=!%22amq-broker-primary!%22,"
              \o "component=addresses,address=!%22"
              \o QuotesEscaped(last.queue_name.s) \o "!%22,"
              \o "subcomponent=queues,routing-type=!%22"
              \o QuotesEscaped(last.routing_type.s) \o "!%22,"
              \o "queue=!%22" \o QuotesEscaped(last.queue_name.s) \o "!%22"
              \o "/browse()"

(***************************************************************************)
(* C14                                                                     *)
(***************************************************************************)
\* the text of a parameter value of the model in the URL
ParamText(v) == IF v.t = "str" THEN v.s ELSE "5"

\* C14: the URL is baseUrl/method/mbeanName followed, when there are
\* parameters, by every parameter value joined with "/" in the order given;
\* without parameters it is baseUrl/method/mbeanName and ends there.
C14_UrlShape ==
    url_call # NoUrlCall =>
        LET stem == "http://localhost:8161/console/jolokia/" \o url_call.method
                        \o "/" \o url_call.endpoint
            p == url_call.params
        IN  CASE Len(p) = 0 -> url_call.url = stem
              [] Len(p) = 1 -> url_call.url = stem \o "/" \o ParamText(p[1])
              [] Len(p) = 2 ->
                    url_call.url = stem \o "/" \o ParamText(p[1])
                                        \o "/" \o ParamText(p[2])
              [] Len(p) = 3 ->
                    url_call.url = stem \o "/" \o ParamText(p[1])
                                        \o "/" \o ParamText(p[2])
                                        \o "/" \o ParamText(p[3])
              [] OTHER -> FALSE

\* an exec URL with two parameters, the operation first
C14_Witness ==
    /\ url_call.method = "exec"
    /\ url_call.endpoint = "java.lang:type=Memory"
    /\ url_call.params = <<PyStr("browse()"), PyInt(5)>>
    /\ url_call.url
          = "http://localhost:8161/console/jolokia/exec/java.lang:type=Memory/browse()/5"

(***************************************************************************)
(* C15                                                                     *)
(***************************************************************************)
\* C15: no invocation sends more than one HTTP request, logout sends none,
\* and a request that failed is reported to the caller as it failed.
C15_NoRetry ==
    /\ \A t \in Tasks : task[t].requests <= 1
    /\ last.requests <= 1
    /\ last.op = "logout" => last.requests = 0
    /\ last.outcome # NoOutcome => last.requests = 1
    /\ last.outcome.kind = "exception" =>
          /\ (last.op = "login") =>
                last.ret = Text("Authentication failed: " \o last.outcome.msg \o " - ")
          /\ (last.op = "get_version") =>
                last.ret = Text("Error: " \o last.outcome.msg \o " - ")
          /\ (last.op = "browse_queue") =>
                last.ret = JsonText(PyDict(<<Item("error", PyStr(last.outcome.msg)),
                                             Item("message", PyStr(""))>>))

\* a login whose only request could not connect
C15_Witness ==
    /\ last.op = "login"
    /\ last.outcome = HttpException("Cannot connect to host localhost:8161")
    /\ last.requests = 1

(***************************************************************************)
(* C16                                                                     *)
(***************************************************************************)
\* C16 as stated: with concurrent callers, once a logout has returned the
\* store stays empty until a login called after it succeeds; a login that
\* was waiting for its verification when the logout ran does not write the
\* store.
C16_LogoutSticks ==
    (last.op = "login" /\ last.overtaken) => authenticated_credentials = last.pre

(***************************************************************************)
(* C17                                                                     *)
(***************************************************************************)
\* C17: with concurrent callers the store is in every state either empty or
\* exactly one username and one password, both non-empty, that one login
\* call supplied together.
C17_StoreIsWholePair ==
    \/ authenticated_credentials = EmptyStore
    \/ \E c \in ConcLogins :
          /\ c[1] # ""
          /\ c[2] # ""
          /\ authenticated_credentials = StoredPair(PyStr(c[1]), PyStr(c[2]))

\* a login overwrote the session of another user while a third call was
\* suspended on its GET
C17_Witness ==
    /\ last.op = "login"
    /\ last.pre = StoredPair(PyStr("admin"), PyStr("secret"))
    /\ authenticated_credentials = StoredPair(PyStr("guest"), PyStr("other"))
    /\ \E t \in Tasks : task[t].pc = "await" /\ task[t].username = PyStr("admin")

(***************************************************************************)
(* C18                                                                     *)
(***************************************************************************)
\* C18: only a login that succeeds and a logout change the store; a login
\* that fails, for any reason, and every get_version and browse_queue, on
\* any path, leave it exactly as it was before the call.
C18_StoreFrame ==
    /\ last.op \in {"get_version", "browse_queue"} =>
          authenticated_credentials = last.pre
    /\ (/\ last.op = "login"
        /\ last.ret # Text("Successfully authenticated as user: " \o last.username.s))
          => authenticated_credentials = last.pre
    /\ authenticated_credentials # last.pre =>
          \/ last.op = "logout"
          \/ /\ last.op = "login"
             /\ last.ret = Text("Successfully authenticated as user: "
                                  \o last.username.s)

\* get_version refused by the broker with HTTP 401 in an active session
C18_Witness ==
    /\ last.op = "get_version"
    /\ last.outcome.kind = "response"
    /\ last.outcome.status = 401
    /\ last.pre # EmptyStore
    /\ authenticated_credentials = last.pre

(***************************************************************************)
(* C19                                                                     *)
(***************************************************************************)
\* C19: on every exit of the dispatcher the client session and the response
\* opened for the request are closed, so a tool that has returned holds
\* nothing open.
C19_NothingLeftOpen ==
    /\ last.open = {}
    /\ \A t \in Tasks : task[t].pc = "idle" => task[t].open = {}
    /\ \A t \in Tasks : task[t].pc = "await" => task[t].open = {"session"}

\* a request whose body could not be read, after session and response were
\* both open
C19_Witness ==
    /\ last.op = "browse_queue"
    /\ last.outcome = HttpReadException("Response payload is not completed")
    /\ last.requests = 1
    /\ last.open = {}

(***************************************************************************)
(* C20                                                                     *)
(***************************************************************************)
\* the two runs returned the same text and, where both sent a request, sent
\* it to the same URL
SameToCaller ==
    /\ twin.a.ret = twin.b.ret
    /\ (twin.a.request # NoRequest /\ twin.b.request # NoRequest) =>
          twin.a.request.url = twin.b.request.url

\* a login puts its password into the Basic-Auth data of its request
PasswordInAuthOnly(run) ==
    (run.op = "login" /\ run.request # NoRequest) =>
        run.request.auth.password = run.password

\* C20 as stated: two runs that differ only in the password given to login
\* and get the same broker answers return the same text from every call.
C20_TextIgnoresPassword == SameToCaller

\* C20 amended: two runs that differ only in the password given to login,
\* the password being empty in both runs or in neither, and that get the
\* same broker answers return the same text from every call and send their
\* requests to the same URLs; the password goes into the Basic-Auth data
\* only. (An empty password is refused before any request, so a run with an
\* empty password returns the authentication-required text where the other
\* run returns the broker's answer.)
C20_TextIgnoresNonEmptyPassword ==
    /\ twin.alike => SameToCaller
    /\ PasswordInAuthOnly(twin.a)
    /\ PasswordInAuthOnly(twin.b)

\* both runs are logged in with different passwords and got the same
\* version text
C20_Witness ==
    /\ twin.alike
    /\ twin.a.creds # twin.b.creds
    /\ twin.a.op = "get_version"
    /\ twin.a.ret = Text("AMQ Broker Version: 2.31.0")
    /\ twin.b.ret = Text("AMQ Broker Version: 2.31.0")

====
